---------------------------- MODULE Spec2Model ----------------------------
(***************************************************************************)
(* Model of shillelagh/adapters/api/gsheets/lib.py: the column label       *)
(* generator and decoder, the row materializer, the Google Chart API URL   *)
(* builder and the sync mode resolver.                                     *)
(*                                                                         *)
(* A Python str is modelled as a sequence of one-character strings, so     *)
(* that parsing, upper-casing, integer conversion and comparison are       *)
(* computed character by character, the way the library calls do.          *)
(***************************************************************************)
EXTENDS Integers, Sequences, FiniteSets, TLC

VARIABLES
    gen_pc,      \* gen_letters generator: "start" (created, not yet run) or "suspended" (at the yield)
    letters,     \* gen_letters local `letters`
    index,       \* gen_letters local `index`
    count,       \* number of labels the generator has yielded so far
    label,       \* the label yielded last ("".join(letters))
    row_in,      \* arguments of the last get_values_from_row call
    row_out,     \* its outcome
    url_in,      \* arguments of the last get_url call
    url_out,     \* its outcome
    sync_in,     \* argument of the last get_sync_mode call
    sync_out     \* its outcome

vars == <<gen_pc, letters, index, count, label, row_in, row_out, url_in, url_out, sync_in, sync_out>>

gen_vars == <<gen_pc, letters, index, count, label>>

\* Python's None
None == [kind |-> "None"]

\* a str where None is possible too (Optional[str])
Str(s) == [kind |-> "str", s |-> s]

\* Outcome of a call that raised: the exception class and its message (a str)
Raise(exc, msg) == [kind |-> "raise", exc |-> exc, msg |-> msg]

\* Outcome of a call that returned
Return(v) == [kind |-> "return", value |-> v]

-----------------------------------------------------------------------------
(* Bounds of the model *)

\* how many labels the generator is resumed for
MaxLabels == 120

\* how many items a row has at most
MaxRowLen == 2

\* how many query parameters a URL given to get_url has at most
MaxParams == 2

\* how many query parameters a URL given to get_sync_mode has at most
MaxSyncParams == 2

-----------------------------------------------------------------------------
(* str primitives *)

\* string.ascii_uppercase
ascii_uppercase ==
    << "A", "B", "C", "D", "E", "F", "G", "H", "I", "J", "K", "L", "M",
       "N", "O", "P", "Q", "R", "S", "T", "U", "V", "W", "X", "Y", "Z" >>

\* string.ascii_lowercase (the characters str.upper changes)
ascii_lowercase ==
    << "a", "b", "c", "d", "e", "f", "g", "h", "i", "j", "k", "l", "m",
       "n", "o", "p", "q", "r", "s", "t", "u", "v", "w", "x", "y", "z" >>

\* the decimal digits, in order of value
digits == << "0", "1", "2", "3", "4", "5", "6", "7", "8", "9" >>

RECURSIVE Power(_, _)
\* b ** e
Power(b, e) == IF e = 0 THEN 1 ELSE b * Power(b, e - 1)

\* string.ascii_uppercase.index(letter)
UpperIndex(letter) == (CHOOSE i \in 1..Len(ascii_uppercase) : ascii_uppercase[i] = letter) - 1

\* one character of str.upper()
UpperChar(c) ==
    IF \E i \in 1..Len(ascii_lowercase) : ascii_lowercase[i] = c
    THEN ascii_uppercase[CHOOSE i \in 1..Len(ascii_lowercase) : ascii_lowercase[i] = c]
    ELSE c

\* str.upper()
Upper(s) == [i \in 1..Len(s) |-> UpperChar(s[i])]

\* code point order of two characters of the alphabet A..Z
CharLess(a, b) == UpperIndex(a) < UpperIndex(b)

RECURSIVE StrLess(_, _)
\* s < t for two str of upper case letters: lexicographic, a proper prefix is smaller
StrLess(s, t) ==
    IF t = <<>> THEN FALSE
    ELSE IF s = <<>> THEN TRUE
    ELSE IF Head(s) = Head(t) THEN StrLess(Tail(s), Tail(t))
    ELSE CharLess(Head(s), Head(t))

\* max(values) over a non-empty set of str
StrMax(S) == CHOOSE m \in S : \A s \in S : s = m \/ StrLess(s, m)

-----------------------------------------------------------------------------
(* gen_letters: the label generator *)

\* the generator's locals after it is resumed from the state (pc, ls, ix), up to its next yield
GenResume(pc, ls, ix) ==
    IF pc = "start"
    THEN [letters |-> << "A" >>, index |-> 0]
    ELSE IF ix + 1 = Len(ascii_uppercase)
         THEN [letters |-> Append([ls EXCEPT ![Len(ls)] = "A"], "A"), index |-> 0]
         ELSE [letters |-> [ls EXCEPT ![Len(ls)] = ascii_uppercase[ix + 1 + 1]],
               index |-> ix + 1]

\* next(gen): run the generator to its next yield
gen_letters ==
    /\ count < MaxLabels
    /\ LET g == GenResume(gen_pc, letters, index)
       IN  /\ gen_pc' = "suspended"
           /\ letters' = g.letters
           /\ index' = g.index
           /\ label' = g.letters
           /\ count' = count + 1
    /\ UNCHANGED <<row_in, row_out, url_in, url_out, sync_in, sync_out>>

RECURSIVE Base26Sum(_)
\* sum(value * 26 ** i for i, value in enumerate(reversed([index(letter) + 1 ...])))
Base26Sum(ls) ==
    IF ls = <<>> THEN 0
    ELSE (UpperIndex(ls[1]) + 1) * Power(Len(ascii_uppercase), Len(ls) - 1)
         + Base26Sum(Tail(ls))

\* get_index_from_letters(letters)
get_index_from_letters(ls) == Base26Sum(ls) - 1

RECURSIVE IsliceGenLetters(_, _, _, _)
\* list(itertools.islice(gen_letters(), n)): the first n labels of a fresh generator
IsliceGenLetters(n, pc, ls, ix) ==
    IF n = 0 THEN <<>>
    ELSE LET g == GenResume(pc, ls, ix)
         IN  << g.letters >> \o IsliceGenLetters(n - 1, "suspended", g.letters, g.index)

-----------------------------------------------------------------------------
(* get_values_from_row: the row materializer *)

\* field names of the rows
FieldNames == {"country", "cnt", "note"}

\* the column labels a column map may use: "A", "B", "C", "AA", "BA"
LabelChoices == { << "A" >>, << "B" >>, << "C" >>, << "A", "A" >>, << "B", "A" >> }

\* the typed values of a row
Values == {"BR", "10"}

\* the Field of each column (the classes get_field hands out)
FieldOf(k) == IF k = "cnt" THEN "GSheetsFloat" ELSE "GSheetsString"

\* Field.to_unformatted(v): the raw wire form of a typed value
to_unformatted(field, v) == [kind |-> "raw", field |-> field, value |-> v]

\* a dict as a function: d[k] = v added to d, replacing an earlier entry for k
DictSet(d, k, v) == (k :> v) @@ d

\* the empty dict
EmptyDict == [k \in {} |-> None]

RECURSIVE Unformatted(_, _)
\* {k: columns[k].to_unformatted(v) for k, v in row.items() if k in columns}, in row order
Unformatted(row, columns) ==
    IF row = <<>> THEN <<>>
    ELSE LET k == Head(row)[1]
             v == Head(row)[2]
         IN  (IF k \in DOMAIN columns
              THEN << <<k, to_unformatted(columns[k], v)>> >>
              ELSE <<>>)
             \o Unformatted(Tail(row), columns)

RECURSIVE Relabel(_, _, _)
\* {column_map[k]: v for k, v in row.items() if k in column_map}: a later item replaces
\* an earlier one that has the same label
Relabel(row, column_map, acc) ==
    IF row = <<>> THEN acc
    ELSE LET k == Head(row)[1]
             v == Head(row)[2]
         IN  Relabel(Tail(row), column_map,
                     IF k \in DOMAIN column_map THEN DictSet(acc, column_map[k], v) ELSE acc)

\* dict.get(key): None when the key is missing
DictGet(d, k) == IF k \in DOMAIN d THEN d[k] ELSE None

\* the values of a dict
DictValues(d) == {d[k] : k \in DOMAIN d}

\* get_values_from_row(row, columns, column_map)
get_values_from_row(row, columns, column_map) ==
    LET unformatted == Unformatted(row, columns)
        labelled == Relabel(unformatted, column_map, EmptyDict)
    IN  IF DOMAIN column_map = {}
        THEN Raise("ValueError", "max() arg is an empty sequence")
        ELSE LET n_cols == get_index_from_letters(StrMax(DictValues(column_map))) + 1
                 labels == IsliceGenLetters(n_cols, "start", <<>>, 0)
             IN  Return([i \in 1..n_cols |-> DictGet(labelled, labels[i])])

\* the rows (dicts in insertion order) of at most n items
RowsOfLen(n) ==
    { r \in [1..n -> FieldNames \X Values] :
        \A i, j \in 1..n : i # j => r[i][1] # r[j][1] }

\* a call of get_values_from_row (the function keeps no state between calls: a behaviour follows one call)
get_values_from_row_call ==
    /\ row_in = None
    /\ \E n \in 0..MaxRowLen, cm_dom \in SUBSET FieldNames, col_dom \in SUBSET FieldNames :
         \E row \in RowsOfLen(n), column_map \in [cm_dom -> LabelChoices] :
            LET columns == [k \in col_dom |-> FieldOf(k)]
            IN  /\ row_in' = [row |-> row, columns |-> columns, column_map |-> column_map]
                /\ row_out' = get_values_from_row(row, columns, column_map)
    /\ UNCHANGED <<gen_vars, url_in, url_out, sync_in, sync_out>>

-----------------------------------------------------------------------------
(* str and urllib.parse primitives used by get_url and get_sync_mode *)

\* s.startswith(p)
StartsWith(s, p) == Len(s) >= Len(p) /\ SubSeq(s, 1, Len(p)) = p

\* s.endswith(p)
EndsWith(s, p) == Len(s) >= Len(p) /\ SubSeq(s, Len(s) - Len(p) + 1, Len(s)) = p

\* s[n:]
DropFirst(s, n) == SubSeq(s, n + 1, Len(s))

\* the position of the first character of s that is in the set cs, 0 when there is none
FindAny(s, cs) ==
    IF \E i \in 1..Len(s) : s[i] \in cs
    THEN CHOOSE i \in 1..Len(s) : s[i] \in cs /\ \A j \in 1..(i - 1) : s[j] \notin cs
    ELSE 0

RECURSIVE RStrip(_, _)
\* s.rstrip(c)
RStrip(s, c) == IF s # <<>> /\ s[Len(s)] = c THEN RStrip(SubSeq(s, 1, Len(s) - 1), c) ELSE s

RECURSIVE LStrip(_, _)
\* s.lstrip(c)
LStrip(s, c) == IF s # <<>> /\ s[1] = c THEN LStrip(Tail(s), c) ELSE s

RECURSIVE Split(_, _)
\* s.split(c): the pieces between the occurrences of the character c
Split(s, c) ==
    LET i == FindAny(s, {c})
    IN  IF i = 0 THEN << s >>
        ELSE << SubSeq(s, 1, i - 1) >> \o Split(DropFirst(s, i), c)

RECURSIVE Join(_, _)
\* sep.join(pieces)
Join(pieces, sep) ==
    IF pieces = <<>> THEN <<>>
    ELSE IF Len(pieces) = 1 THEN pieces[1]
    ELSE pieces[1] \o sep \o Join(Tail(pieces), sep)

\* the value of a decimal digit
DigitValue(c) == (CHOOSE i \in 1..Len(digits) : digits[i] = c) - 1

\* whether c is a decimal digit
IsDigit(c) == \E i \in 1..Len(digits) : digits[i] = c

\* s without surrounding blanks and without its sign
IntBody(s) ==
    LET t == RStrip(LStrip(s, " "), " ")
    IN  IF t # <<>> /\ t[1] \in {"+", "-"} THEN Tail(t) ELSE t

\* whether int(s) succeeds: optional blanks, an optional sign, one or more digits
IsInt(s) == IntBody(s) # <<>> /\ \A i \in 1..Len(IntBody(s)) : IsDigit(IntBody(s)[i])

RECURSIVE DigitsValue(_)
\* the number a str of digits denotes
DigitsValue(ds) ==
    IF ds = <<>> THEN 0
    ELSE DigitsValue(SubSeq(ds, 1, Len(ds) - 1)) * 10 + DigitValue(ds[Len(ds)])

\* int(s), for s with IsInt(s)
IntOf(s) ==
    LET t == LStrip(s, " ")
    IN  IF t[1] = "-" THEN 0 - DigitsValue(IntBody(s)) ELSE DigitsValue(IntBody(s))

RECURSIVE NatToStr(_)
\* str(n) for n >= 0
NatToStr(n) ==
    IF n < 10 THEN << digits[n + 1] >>
    ELSE Append(NatToStr(n \div 10), digits[(n % 10) + 1])

\* str(n)
IntToStr(n) == IF n < 0 THEN << "-" >> \o NatToStr(0 - n) ELSE NatToStr(n)

\* the percent escapes of the characters urllib quotes, among those the model's str use
PercentTable ==
    << << "&", "2", "6" >>, << "=", "3", "D" >>, << "#", "2", "3" >>, << "?", "3", "F" >>,
       << "/", "2", "F" >>, << "+", "2", "B" >>, << "%", "2", "5" >>, << ":", "3", "A" >> >>

RECURSIVE Unquote(_)
\* urllib.parse.unquote(s.replace("+", " ")): "+" is a blank, %XX the character it escapes,
\* an escape that is none is left as it is
Unquote(s) ==
    IF s = <<>> THEN <<>>
    ELSE IF s[1] = "+" THEN << " " >> \o Unquote(Tail(s))
    ELSE IF /\ s[1] = "%"
            /\ Len(s) >= 3
            /\ \E e \in 1..Len(PercentTable) :
                  PercentTable[e][2] = s[2] /\ PercentTable[e][3] = s[3]
         THEN LET e == CHOOSE e \in 1..Len(PercentTable) :
                          PercentTable[e][2] = s[2] /\ PercentTable[e][3] = s[3]
              IN  << PercentTable[e][1] >> \o Unquote(DropFirst(s, 3))
         ELSE << s[1] >> \o Unquote(Tail(s))

RECURSIVE QuotePlus(_)
\* urllib.parse.quote_plus(s): a blank is "+", a reserved character its %XX escape
QuotePlus(s) ==
    IF s = <<>> THEN <<>>
    ELSE IF s[1] = " " THEN << "+" >> \o QuotePlus(Tail(s))
    ELSE IF \E e \in 1..Len(PercentTable) : PercentTable[e][1] = s[1]
         THEN LET e == CHOOSE e \in 1..Len(PercentTable) : PercentTable[e][1] = s[1]
              IN  << "%", PercentTable[e][2], PercentTable[e][3] >> \o QuotePlus(Tail(s))
         ELSE << s[1] >> \o QuotePlus(Tail(s))

\* urllib.parse.urlparse(uri): scheme up to the first ":", netloc after "//" up to the
\* first of "/", "?", "#", the fragment after the first "#", the query after the first
\* "?" of what precedes the fragment, the rest the path
urlparse(uri) ==
    LET colon == FindAny(uri, {":"})
        scheme == IF colon > 1 THEN SubSeq(uri, 1, colon - 1) ELSE <<>>
        rest1 == IF colon > 1 THEN DropFirst(uri, colon) ELSE uri
        has_netloc == StartsWith(rest1, << "/", "/" >>)
        after == DropFirst(rest1, 2)
        stop == FindAny(after, {"/", "?", "#"})
        netloc == IF ~has_netloc THEN <<>>
                  ELSE IF stop = 0 THEN after ELSE SubSeq(after, 1, stop - 1)
        rest2 == IF ~has_netloc THEN rest1
                 ELSE IF stop = 0 THEN <<>> ELSE DropFirst(after, stop - 1)
        hash == FindAny(rest2, {"#"})
        fragment == IF hash = 0 THEN <<>> ELSE DropFirst(rest2, hash)
        rest3 == IF hash = 0 THEN rest2 ELSE SubSeq(rest2, 1, hash - 1)
        qmark == FindAny(rest3, {"?"})
        query == IF qmark = 0 THEN <<>> ELSE DropFirst(rest3, qmark)
        path == IF qmark = 0 THEN rest3 ELSE SubSeq(rest3, 1, qmark - 1)
    IN  [scheme |-> scheme, netloc |-> netloc, path |-> path,
         query |-> query, fragment |-> fragment]

RECURSIVE ParsePairs(_, _)
\* urllib.parse.parse_qsl over the "&"-separated pieces: a piece without "=" or (unless
\* blank values are kept) with nothing after it is dropped; name and value are unquoted
ParsePairs(pieces, keep_blank_values) ==
    IF pieces = <<>> THEN <<>>
    ELSE LET nv == Head(pieces)
             eq == FindAny(nv, {"="})
             name == IF eq = 0 THEN nv ELSE SubSeq(nv, 1, eq - 1)
             value == IF eq = 0 THEN <<>> ELSE DropFirst(nv, eq)
             kept == /\ nv # <<>>
                     /\ (eq # 0 \/ keep_blank_values)
                     /\ (value # <<>> \/ keep_blank_values)
         IN  (IF kept THEN << << Unquote(name), Unquote(value) >> >> ELSE <<>>)
             \o ParsePairs(Tail(pieces), keep_blank_values)

RECURSIVE ValuesOf(_, _)
\* the list of values of one name among parsed pairs, in their order
ValuesOf(pairs, name) ==
    IF pairs = <<>> THEN <<>>
    ELSE (IF Head(pairs)[1] = name THEN << Head(pairs)[2] >> ELSE <<>>)
         \o ValuesOf(Tail(pairs), name)

\* urllib.parse.parse_qs(qs): name -> the list of its values; a name with no value left
\* is not in the dict
parse_qs(qs) ==
    LET pairs == ParsePairs(Split(qs, "&"), FALSE)
        names == {pairs[i][1] : i \in 1..Len(pairs)}
    IN  [name \in names |-> ValuesOf(pairs, name)]

\* xs[-1]
Last(xs) == xs[Len(xs)]

RECURSIVE Encode(_)
\* urllib.parse.urlencode(args) for the items of args in insertion order
Encode(items) ==
    IF items = <<>> THEN <<>>
    ELSE << QuotePlus(Head(items)[1]) \o << "=" >> \o QuotePlus(Head(items)[2]) >>
         \o Encode(Tail(items))

\* urllib.parse.urlencode(args)
urlencode(items) == Join(Encode(items), << "&" >>)

\* urllib.parse.urlunparse((scheme, netloc, path, None, query, None))
urlunparse(scheme, netloc, path, query) ==
    LET url1 == IF netloc # <<>>
                THEN << "/", "/" >> \o netloc
                     \o (IF path # <<>> /\ path[1] # "/" THEN << "/" >> ELSE <<>>) \o path
                ELSE path
        url2 == IF scheme # <<>> THEN scheme \o << ":" >> \o url1 ELSE url1
    IN  IF query # <<>> THEN url2 \o << "?" >> \o query ELSE url2

-----------------------------------------------------------------------------
(* get_url: the Google Chart API URL of a spreadsheet URL *)

\* "headers"
s_headers == << "h", "e", "a", "d", "e", "r", "s" >>

\* "gid"
s_gid == << "g", "i", "d" >>

\* "sheet"
s_sheet == << "s", "h", "e", "e", "t" >>

\* "gid="
s_gid_eq == << "g", "i", "d", "=" >>

\* "/edit"
s_edit == << "/", "e", "d", "i", "t" >>

\* "gviz/tq"
s_gviz == << "g", "v", "i", "z", "/", "t", "q" >>

\* the ValueError of int(s)
IntError(s) == Raise("ValueError", s)

\* `headers` after "if 'headers' in query_string: headers = int(query_string['headers'][-1])"
ResolveHeaders(query_string, headers) ==
    IF s_headers \in DOMAIN query_string
    THEN IntOf(Last(query_string[s_headers]))
    ELSE headers

\* ResolveGid with the precedence reversed: the query string's gid replaces the fragment's
ResolveGid_QueryOverFragment(query_string, fragment, gid) ==
    LET gid1 == IF StartsWith(fragment, s_gid_eq)
                THEN IntOf(DropFirst(fragment, Len(s_gid_eq)))
                ELSE gid
    IN  IF s_gid \in DOMAIN query_string
        THEN IntOf(Last(query_string[s_gid]))
        ELSE gid1

\* `gid` after the query string's gid (its last value) and then the fragment's have replaced it
ResolveGid(query_string, fragment, gid) ==
    LET gid1 == IF s_gid \in DOMAIN query_string
                THEN IntOf(Last(query_string[s_gid]))
                ELSE gid
    IN  IF StartsWith(fragment, s_gid_eq)
        THEN IntOf(DropFirst(fragment, Len(s_gid_eq)))
        ELSE gid1

\* `sheet` after "if 'sheet' in query_string: sheet = query_string['sheet'][-1]"
ResolveSheet(query_string, sheet) ==
    IF s_sheet \in DOMAIN query_string
    THEN Str(Last(query_string[s_sheet]))
    ELSE sheet

\* UrlArgs with the gid added whether or not a sheet is known
UrlArgs_BothKeys(headers, gid, sheet) ==
    (IF headers > 0 THEN << << s_headers, IntToStr(headers) >> >> ELSE <<>>)
    \o (IF sheet # None THEN << << s_sheet, sheet.s >> >> ELSE <<>>)
    \o << << s_gid, IntToStr(gid) >> >>

\* UrlArgs with "headers >= 0" for "headers > 0"
UrlArgs_HeadersNonNegative(headers, gid, sheet) ==
    (IF headers >= 0 THEN << << s_headers, IntToStr(headers) >> >> ELSE <<>>)
    \o (IF sheet # None
        THEN << << s_sheet, sheet.s >> >>
        ELSE << << s_gid, IntToStr(gid) >> >>)

\* the items of `args`, in insertion order, with str() of each value
UrlArgs(headers, gid, sheet) ==
    (IF headers > 0 THEN << << s_headers, IntToStr(headers) >> >> ELSE <<>>)
    \o (IF sheet # None
        THEN << << s_sheet, sheet.s >> >>
        ELSE << << s_gid, IntToStr(gid) >> >>)

\* get_url(uri, headers, gid, sheet): headers and gid are int, sheet is Str(name) or None
get_url(uri, headers, gid, sheet) ==
    LET parts == urlparse(uri)
        path0 == IF EndsWith(parts.path, s_edit)
                 THEN SubSeq(parts.path, 1, Len(parts.path) - Len(s_edit))
                 ELSE parts.path
        path == Join(<< RStrip(path0, "/"), s_gviz >>, << "/" >>)
        query_string == parse_qs(parts.query)
        frag_text == DropFirst(parts.fragment, Len(s_gid_eq))
    IN  IF s_headers \in DOMAIN query_string /\ ~IsInt(Last(query_string[s_headers]))
        THEN IntError(Last(query_string[s_headers]))
        ELSE IF s_gid \in DOMAIN query_string /\ ~IsInt(Last(query_string[s_gid]))
        THEN IntError(Last(query_string[s_gid]))
        ELSE IF StartsWith(parts.fragment, s_gid_eq) /\ ~IsInt(frag_text)
        THEN IntError(frag_text)
        ELSE
        LET args == UrlArgs(ResolveHeaders(query_string, headers),
                            ResolveGid(query_string, parts.fragment, gid),
                            ResolveSheet(query_string, sheet))
            params == urlencode(args)
        IN  Return(urlunparse(parts.scheme, parts.netloc, path, params))

\* the spreadsheet URLs up to their path: with and without the trailing "/edit"
UrlBases == { << "h", "t", "t", "p", "s", ":", "/", "/", "x", "/", "d", "/", "I", "D", "/", "e", "d", "i", "t" >>, << "h", "t", "t", "p", "s", ":", "/", "/", "x", "/", "d", "/", "I", "D", "/" >> }

\* an integer-valued query parameter as the URL gives it, the int it denotes and str() of it
IntParam(key, text, n, canon) ==
    [key |-> key, text |-> text, isint |-> TRUE, n |-> n, name |-> canon, canon |-> canon]

\* a query parameter whose text is no integer (or a sheet name): the text, the str it
\* decodes to and its encoding by urlencode
StrParam(key, text, name, canon) ==
    [key |-> key, text |-> text, isint |-> FALSE, n |-> 0, name |-> name, canon |-> canon]

\* the query parameters a URL is built from: headers=2, headers=0, headers=-1, headers=x,
\* gid=3, gid=05, gid=z, gid= (no value), sheet=S2, sheet=a+b
QueryParamChoices ==
    { IntParam(s_headers, << "2" >>, 2, << "2" >>),
      IntParam(s_headers, << "0" >>, 0, << "0" >>),
      IntParam(s_headers, << "-", "1" >>, 0 - 1, << "-", "1" >>),
      StrParam(s_headers, << "x" >>, << "x" >>, << "x" >>),
      IntParam(s_gid, << "3" >>, 3, << "3" >>),
      IntParam(s_gid, << "0", "5" >>, 5, << "5" >>),
      StrParam(s_gid, << "z" >>, << "z" >>, << "z" >>),
      StrParam(s_gid, <<>>, <<>>, <<>>),
      StrParam(s_sheet, << "S", "2" >>, << "S", "2" >>, << "S", "2" >>),
      StrParam(s_sheet, << "a", "+", "b" >>, << "a", " ", "b" >>, << "a", "+", "b" >>) }

\* the fragments a URL is built with: none, "gid=7", "gid=7?headers=2" (the query text
\* written after the fragment), "gid=x", "range=A1"
FragmentChoices ==
    { [present |-> FALSE, text |-> <<>>, isgid |-> FALSE, isint |-> FALSE, n |-> 0, canon |-> <<>>],
      [present |-> TRUE, text |-> << "g", "i", "d", "=", "7" >>, isgid |-> TRUE, isint |-> TRUE, n |-> 7, canon |-> << "7" >>],
      [present |-> TRUE, text |-> << "g", "i", "d", "=", "7", "?", "h", "e", "a", "d", "e", "r", "s", "=", "2" >>, isgid |-> TRUE, isint |-> FALSE, n |-> 0, canon |-> <<>>],
      [present |-> TRUE, text |-> << "g", "i", "d", "=", "x" >>, isgid |-> TRUE, isint |-> FALSE, n |-> 0, canon |-> <<>>],
      [present |-> TRUE, text |-> << "r", "a", "n", "g", "e", "=", "A", "1" >>, isgid |-> FALSE, isint |-> FALSE, n |-> 0, canon |-> <<>>] }

\* the fragments of the URLs given to get_sync_mode: none, "gid=7", and "gid=7?sync_mode=batch"
\* (the query text written after the fragment)
SyncFragmentChoices ==
    { [present |-> FALSE, text |-> <<>>],
      [present |-> TRUE, text |-> << "g", "i", "d", "=", "7" >>],
      [present |-> TRUE, text |-> << "g", "i", "d", "=", "7", "?", "s", "y", "n", "c", "_", "m", "o", "d", "e", "=", "b", "a", "t", "c", "h" >>] }

\* the default arguments of get_url: an int, with str() of it
DefaultHeaders == { [n |-> 0, canon |-> << "0" >>], [n |-> 1, canon |-> << "1" >>] }

\* the default gid arguments: an int, with str() of it
DefaultGids == { [n |-> 0, canon |-> << "0" >>], [n |-> 4, canon |-> << "4" >>] }

\* the default sheet arguments: None or a name
DefaultSheets == { None, Str(<< "D" >>) }

\* the URL text: base, then "?" and the parameters joined by "&", then "#" and the fragment
BuildUri(base, params, fragment) ==
    base
    \o (IF params = <<>> THEN <<>>
        ELSE << "?" >> \o Join([i \in 1..Len(params) |->
                                  params[i].key \o << "=" >> \o params[i].text], << "&" >>))
    \o (IF fragment.present THEN << "#" >> \o fragment.text ELSE <<>>)

\* a call of get_url (the function keeps no state between calls: a behaviour follows one call)
get_url_call ==
    /\ url_in = None
    /\ \E base \in UrlBases, n \in 0..MaxParams, fragment \in FragmentChoices,
          headers \in DefaultHeaders, gid \in DefaultGids, sheet \in DefaultSheets :
         \E params \in [1..n -> QueryParamChoices] :
            LET uri == BuildUri(base, params, fragment)
            IN  /\ url_in' = [uri |-> uri, headers |-> headers, gid |-> gid, sheet |-> sheet,
                              params |-> params, fragment |-> fragment]
                /\ url_out' = get_url(uri, headers.n, gid.n, sheet)
    /\ UNCHANGED <<gen_vars, row_in, row_out, sync_in, sync_out>>

-----------------------------------------------------------------------------
(* get_sync_mode: the synchronization mode of a spreadsheet URL *)

\* "sync_mode"
s_sync_mode == << "s", "y", "n", "c", "_", "m", "o", "d", "e" >>

\* the members of the SyncMode enumeration: name and value
SyncMode ==
    << [name |-> << "B", "I", "D", "I", "R", "E", "C", "T", "I", "O", "N", "A", "L" >>, value |-> 1],
       [name |-> << "U", "N", "I", "D", "I", "R", "E", "C", "T", "I", "O", "N", "A", "L" >>, value |-> 2],
       [name |-> << "B", "A", "T", "C", "H" >>, value |-> 3] >>

\* "Invalid sync mode: "
s_invalid_sync_mode == << "I", "n", "v", "a", "l", "i", "d", " ", "s", "y", "n", "c", " ", "m", "o", "d", "e", ":", " " >>

\* SyncParameter without the upper()
SyncParameter_NoUpper(query_string) == Last(query_string[s_sync_mode])

\* `parameter`: query_string["sync_mode"][-1].upper()
SyncParameter(query_string) == Upper(Last(query_string[s_sync_mode]))

\* get_sync_mode(uri)
get_sync_mode(uri) ==
    LET parts == urlparse(uri)
        query_string == parse_qs(parts.query)
    IN  IF s_sync_mode \notin DOMAIN query_string
        THEN Return(None)
        ELSE LET parameter == SyncParameter(query_string)
             IN  IF \E m \in 1..Len(SyncMode) : SyncMode[m].name = parameter
                 THEN Return(SyncMode[CHOOSE m \in 1..Len(SyncMode) :
                                         SyncMode[m].name = parameter])
                 ELSE IF /\ IsInt(parameter)
                         /\ \E m \in 1..Len(SyncMode) : SyncMode[m].value = IntOf(parameter)
                 THEN Return(SyncMode[CHOOSE m \in 1..Len(SyncMode) :
                                         SyncMode[m].value = IntOf(parameter)])
                 ELSE Raise("ProgrammingError", s_invalid_sync_mode \o parameter)

\* a sync_mode parameter: its text in the URL, how it names a mode ("lower", "upper" or
\* "mixed" case name, "code", "invalid" for neither, "blank" for no value) and which member
SyncParam(text, form, member) ==
    [key |-> s_sync_mode, text |-> text, form |-> form, member |-> member]

\* the query parameters a URL is built from: each member by its name in lower, upper and
\* mixed case and by its code; tokens that are neither; no value; and another parameter
SyncParamChoices ==
    { SyncParam(<< "b", "i", "d", "i", "r", "e", "c", "t", "i", "o", "n", "a", "l" >>, "lower", 1), SyncParam(<< "B", "I", "D", "I", "R", "E", "C", "T", "I", "O", "N", "A", "L" >>, "upper", 1),
      SyncParam(<< "B", "i", "d", "i", "r", "e", "c", "t", "i", "o", "n", "a", "l" >>, "mixed", 1), SyncParam(<< "1" >>, "code", 1),
      SyncParam(<< "u", "n", "i", "d", "i", "r", "e", "c", "t", "i", "o", "n", "a", "l" >>, "lower", 2), SyncParam(<< "U", "N", "I", "D", "I", "R", "E", "C", "T", "I", "O", "N", "A", "L" >>, "upper", 2),
      SyncParam(<< "U", "n", "i", "d", "i", "r", "e", "c", "t", "i", "o", "n", "a", "l" >>, "mixed", 2), SyncParam(<< "2" >>, "code", 2),
      SyncParam(<< "b", "a", "t", "c", "h" >>, "lower", 3), SyncParam(<< "B", "A", "T", "C", "H" >>, "upper", 3),
      SyncParam(<< "B", "a", "t", "c", "h" >>, "mixed", 3), SyncParam(<< "3" >>, "code", 3),
      SyncParam(<< "b", "o", "g", "u", "s" >>, "invalid", 0), SyncParam(<< "F", "O", "O" >>, "invalid", 0),
      SyncParam(<< "b", "a", "t", "c", "h", "1" >>, "invalid", 0), SyncParam(<< "7" >>, "invalid", 0),
      SyncParam(<< "0" >>, "invalid", 0), SyncParam(<<>>, "blank", 0),
      [key |-> s_gid, text |-> << "3" >>, form |-> "other", member |-> 0] }

\* a call of get_sync_mode (the function keeps no state between calls: a behaviour follows one call)
get_sync_mode_call ==
    /\ sync_in = None
    /\ \E base \in UrlBases, n \in 0..MaxSyncParams, fragment \in SyncFragmentChoices :
         \E params \in [1..n -> SyncParamChoices] :
            LET uri == BuildUri(base, params, fragment)
            IN  /\ sync_in' = [uri |-> uri, params |-> params, fragment |-> fragment]
                /\ sync_out' = get_sync_mode(uri)
    /\ UNCHANGED <<gen_vars, row_in, row_out, url_in, url_out>>

-----------------------------------------------------------------------------

Init ==
    /\ gen_pc = "start"
    /\ letters = <<>>
    /\ index = 0
    /\ count = 0
    /\ label = <<>>
    /\ row_in = None
    /\ row_out = None
    /\ url_in = None
    /\ url_out = None
    /\ sync_in = None
    /\ sync_out = None

\* the label generator alone
NextLetters == gen_letters

SpecLetters == Init /\ [][NextLetters]_vars

\* the row materializer alone
NextRow == get_values_from_row_call

SpecRow == Init /\ [][NextRow]_vars

\* the URL builder alone
NextUrl == get_url_call

SpecUrl == Init /\ [][NextUrl]_vars

\* the sync mode resolver alone
NextSync == get_sync_mode_call

SpecSync == Init /\ [][NextSync]_vars

-----------------------------------------------------------------------------
(* The column address codec *)

\* C1: the n-th label the generator yields (0-based) decodes back to n:
\* get_index_from_letters(label) = n for every label produced.
C1_RoundTrip == count > 0 => get_index_from_letters(label) = count - 1

RECURSIVE ExpectedLabel(_)
\* the label of index n in bijective base 26, with the carry taken into every position
ExpectedLabel(n) ==
    IF n < Len(ascii_uppercase)
    THEN << ascii_uppercase[n + 1] >>
    ELSE Append(ExpectedLabel((n \div Len(ascii_uppercase)) - 1),
                ascii_uppercase[(n % Len(ascii_uppercase)) + 1])

\* C2: the labels carry across every digit position: indices 0..51 give "A".."Z",
\* "AA".."AZ", index 52 gives "BA" (and 701 "ZZ", 702 "AAA"); the label after one ending
\* in "Z" is the one with the carry propagated.
C2_CarryPropagates ==
    count > 0 =>
        /\ label = ExpectedLabel(count - 1)
        /\ (count - 1 = 52 => label = << "B", "A" >>)
        /\ (count - 1 = 701 => label = << "Z", "Z" >>)
        /\ (count - 1 = 702 => label = << "A", "A", "A" >>)

-----------------------------------------------------------------------------
(* The row materializer *)

\* the column map of the call has no two fields on one letter
CollisionFree(column_map) ==
    \A a, b \in DOMAIN column_map : a # b => column_map[a] # column_map[b]

\* the highest column index a letter of the column map has
MaxColumnIndex(column_map) ==
    CHOOSE m \in {get_index_from_letters(l) : l \in DictValues(column_map)} :
        \A l \in DictValues(column_map) : get_index_from_letters(l) <= m

\* what position i of the sheet row must hold: the serialized value of the row's field
\* mapped to column index i, the null sentinel when the row has none
ExpectedCell(in, i) ==
    LET hits == { j \in 1..Len(in.row) :
                    /\ in.row[j][1] \in DOMAIN in.column_map
                    /\ get_index_from_letters(in.column_map[in.row[j][1]]) = i }
    IN  IF hits = {} THEN None
        ELSE LET j == CHOOSE j \in hits : TRUE
             IN  to_unformatted(in.columns[in.row[j][1]], in.row[j][2])

\* C3: for a non-empty, collision-free column map (keyed like the field serializers)
\* the result has length (highest mapped column index) + 1 and position i holds the
\* serialized value of the field mapped to column index i, or the null sentinel.
C3_Materialization ==
    ( /\ row_in # None
      /\ DOMAIN row_in.column_map # {}
      /\ CollisionFree(row_in.column_map)
      /\ DOMAIN row_in.columns = DOMAIN row_in.column_map )
    => /\ row_out.kind = "return"
       /\ Len(row_out.value) = MaxColumnIndex(row_in.column_map) + 1
       /\ \A i \in 0..MaxColumnIndex(row_in.column_map) :
             row_out.value[i + 1] = ExpectedCell(row_in, i)

\* C4: a column map that is empty or maps two fields to one letter is rejected (the call
\* raises); no row is returned for it, so no colliding field overwrites another.
C4_RejectsBadColumnMap ==
    ( /\ row_in # None
      /\ (DOMAIN row_in.column_map = {} \/ ~CollisionFree(row_in.column_map)) )
    => row_out.kind = "raise"

-----------------------------------------------------------------------------
(* The URL builder *)

\* whether the URL's query gives the parameter `key` a value
HasParam(params, key) ==
    \E i \in 1..Len(params) : params[i].key = key /\ params[i].text # <<>>

\* the last parameter `key` of the URL's query that has a value
LastParam(params, key) ==
    params[CHOOSE i \in 1..Len(params) :
              /\ params[i].key = key /\ params[i].text # <<>>
              /\ \A j \in (i + 1)..Len(params) :
                    ~(params[j].key = key /\ params[j].text # <<>>)]

\* the values the emitted URL's query gives to `key`, decoded
Emitted(key) == ValuesOf(ParsePairs(Split(urlparse(url_out.value).query, "&"), TRUE), key)

\* a sheet name is known: from the default argument or from the URL's query
SheetKnown == url_in.sheet # None \/ HasParam(url_in.params, s_sheet)

\* C5: the emitted query carries exactly one of the keys sheet and gid: sheet=<name>
\* exactly when a sheet name is known (default argument or URL query), gid=<value> otherwise.
C5_ExactlyOneOfSheetGid ==
    (url_in # None /\ url_out.kind = "return") =>
        /\ Len(Emitted(s_sheet)) + Len(Emitted(s_gid)) = 1
        /\ (Len(Emitted(s_sheet)) = 1 <=> SheetKnown)
        /\ (Len(Emitted(s_gid)) = 1 <=> ~SheetKnown)
        /\ SheetKnown =>
              Emitted(s_sheet)[1] = IF HasParam(url_in.params, s_sheet)
                                    THEN LastParam(url_in.params, s_sheet).name
                                    ELSE url_in.sheet.s

\* a call whose URL gives both a sheet and a gid returned a URL
C5_Witness ==
    /\ url_in # None
    /\ url_out.kind = "return"
    /\ HasParam(url_in.params, s_sheet)
    /\ HasParam(url_in.params, s_gid)
    /\ url_in.fragment.isgid

\* C6: with no sheet known, the emitted gid is that of the fragment gid=<integer> when there
\* is one, else that of the last gid query parameter, else the default argument.
C6_GidPrecedence ==
    (url_in # None /\ url_out.kind = "return" /\ ~SheetKnown) =>
        Emitted(s_gid) =
            << IF url_in.fragment.isgid THEN url_in.fragment.canon
               ELSE IF HasParam(url_in.params, s_gid)
                    THEN LastParam(url_in.params, s_gid).canon
                    ELSE url_in.gid.canon >>

\* a call with a gid fragment, two different gid query parameters and a third default returned
C6_Witness ==
    /\ url_in # None
    /\ url_out.kind = "return"
    /\ ~SheetKnown
    /\ url_in.fragment.isgid
    /\ Len(url_in.params) = 2
    /\ url_in.params[1].key = s_gid
    /\ url_in.params[2].key = s_gid
    /\ url_in.params[1].n # url_in.params[2].n
    /\ url_in.gid.n = 4

\* the header count the claim resolves: the last headers query parameter, else the default
ResolvedHeaders ==
    IF HasParam(url_in.params, s_headers)
    THEN LastParam(url_in.params, s_headers)
    ELSE url_in.headers

\* C7: the emitted query contains headers=<value> if and only if the resolved header
\* count (last headers query parameter, else the default) is strictly greater than zero.
C7_HeadersIffPositive ==
    (url_in # None /\ url_out.kind = "return") =>
        /\ (Len(Emitted(s_headers)) = 1 <=> ResolvedHeaders.n > 0)
        /\ (Len(Emitted(s_headers)) = 0 <=> ResolvedHeaders.n <= 0)
        /\ ResolvedHeaders.n > 0 => Emitted(s_headers) = << ResolvedHeaders.canon >>

\* a call whose URL repeats headers, first 0 and last 2, over a default of 1, returned
C7_Witness ==
    /\ url_in # None
    /\ url_out.kind = "return"
    /\ Len(url_in.params) = 2
    /\ url_in.params[1].key = s_headers /\ url_in.params[1].isint /\ url_in.params[1].n = 0
    /\ url_in.params[2].key = s_headers /\ url_in.params[2].isint /\ url_in.params[2].n = 2
    /\ url_in.headers.n = 1
    /\ Emitted(s_headers) = << << "2" >> >>

\* C10: get_url returns a result for every URL it is given, never failing.
C10_GetUrlTotal == url_in # None => url_out.kind = "return"

-----------------------------------------------------------------------------
(* The sync mode resolver *)

\* C8: the last sync_mode value decides, and a member's lower case name, upper case name
\* and integer code all resolve to that member; without a sync_mode parameter the result
\* is None, which is no member and no error.
C8_SyncModeEquivalence ==
    sync_in # None =>
        /\ (\A i \in 1..Len(sync_in.params) : sync_in.params[i].key # s_sync_mode)
              => sync_out = Return(None)
        /\ ( /\ HasParam(sync_in.params, s_sync_mode)
             /\ LastParam(sync_in.params, s_sync_mode).form \in {"lower", "upper", "code"} )
              => sync_out = Return(SyncMode[LastParam(sync_in.params, s_sync_mode).member])
        /\ sync_out = Return(None)
              => \A m \in 1..Len(SyncMode) : sync_out # Return(SyncMode[m])

\* a call whose URL repeats sync_mode, first a code and last the lower case name of
\* another member, resolved to that member
C8_Witness ==
    /\ sync_in # None
    /\ Len(sync_in.params) = 2
    /\ sync_in.params[1].key = s_sync_mode /\ sync_in.params[1].form = "code"
    /\ sync_in.params[2].key = s_sync_mode /\ sync_in.params[2].form = "lower"
    /\ sync_in.params[1].member # sync_in.params[2].member
    /\ sync_out = Return(SyncMode[sync_in.params[2].member])

\* whether the str t occurs in the str s
Contains(s, t) == \E i \in 0..(Len(s) - Len(t)) : SubSeq(s, i + 1, i + Len(t)) = t

\* C9: a sync_mode token that is neither a name nor a code fails with a ProgrammingError
\* that carries the token exactly as the URL gives it.
C9_ErrorCarriesRawToken ==
    ( /\ sync_in # None
      /\ HasParam(sync_in.params, s_sync_mode)
      /\ LastParam(sync_in.params, s_sync_mode).form = "invalid" )
    => /\ sync_out.kind = "raise"
       /\ sync_out.exc = "ProgrammingError"
       /\ Contains(sync_out.msg, LastParam(sync_in.params, s_sync_mode).text)

=============================================================================
